---- MODULE Spec2Model ----
(***************************************************************************)
(* Model of the bulk MySQL export / import tool (src/src/export.ts and     *)
(* src/src/import.ts).  One run of either script is one behaviour: the     *)
(* main() coroutine, the child processes it spawns, the promise that wraps *)
(* each child, the timeout timer of each promise, the run statistics and   *)
(* the run log.                                                            *)
(*                                                                         *)
(* Node's scheduling is modelled as it is: main() runs to its next await   *)
(* in one step; an event handler (close, error, stdin error, timer) runs   *)
(* to completion in one step; the continuation of an await is a microtask  *)
(* and so runs before any further event is delivered.  An exception thrown *)
(* inside main() rejects main's promise (exit status 1 through the .catch  *)
(* of the last lines); an exception thrown inside an event handler is an   *)
(* uncaught exception (exit status 1).                                     *)
(*                                                                         *)
(* The model starts after parseArgs() has returned a configuration.        *)
(***************************************************************************)
EXTENDS Integers, Sequences, FiniteSets, TLC

\* ------------------------------------------------------------------ bounds
\* Largest number of credential records of a run.
MaxDb == 2

\* ------------------------------------------------------- program constants
\* "if (this.logStream.length % 10 === 0) this.flush()"
FlushEvery == 10

\* ------------------------------------------------------------- input sets
Modes == {"export", "import"}

\* host column of a credential record: the two loopback spellings the import
\* special-cases, and one other host.
Hosts == {"localhost", "127.0.0.1", "db.remote"}

\* database_name of the k-th record (names are unique per run).
DbNames == << <<"a">>, <<"b">>, <<"a", "_", "b">>, <<"c">> >>

\* ".sql" and another extension, as characters.
SqlExt == <<".", "s", "q", "l">>
TxtExt == <<".", "t", "x", "t">>

\* A backup file name "<name>_<stamp><ext>".
BackupName(name, stamp, ext) == name \o <<"_", stamp>> \o ext

\* Contents of the backup directory an import run may start with.
DirChoices ==
  { {},
    { BackupName(DbNames[1], "1", SqlExt), BackupName(DbNames[1], "2", SqlExt),
      BackupName(DbNames[2], "1", TxtExt) },
    { BackupName(DbNames[2], "1", SqlExt) },
    { BackupName(DbNames[1], "1", SqlExt), BackupName(DbNames[2], "1", SqlExt),
      BackupName(DbNames[3], "1", SqlExt) } }

\* Exit codes a child reports with its close event: 0, or 1 standing for every
\* other code (non-zero, or null after a signal, or negative after a failed
\* spawn).
CloseCodes == {0, 1}

\* ------------------------------------------------- strings as JS sees them
\* UTF-16 code units of the characters used in file names.
CharCode(c) ==
  CASE c = "-" -> 45
    [] c = "." -> 46
    [] c = "0" -> 48
    [] c = "1" -> 49
    [] c = "2" -> 50
    [] c = "3" -> 51
    [] c = "4" -> 52
    [] c = "5" -> 53
    [] c = "6" -> 54
    [] c = "7" -> 55
    [] c = "8" -> 56
    [] c = "9" -> 57
    [] c = ":" -> 58
    [] c = "T" -> 84
    [] c = "Z" -> 90
    [] c = "_" -> 95
    [] c = "a" -> 97
    [] c = "b" -> 98
    [] c = "c" -> 99
    [] c = "l" -> 108
    [] c = "q" -> 113
    [] c = "s" -> 115
    [] c = "t" -> 116
    [] c = "x" -> 120

\* String.prototype.startsWith
startsWith(s, p) == Len(s) >= Len(p) /\ SubSeq(s, 1, Len(p)) = p

\* A plausible slip: the extension of an entry is not tested.
endsWith_any(s, p) == TRUE

\* String.prototype.endsWith
endsWith(s, p) == Len(s) >= Len(p) /\ SubSeq(s, Len(s) - Len(p) + 1, Len(s)) = p

\* s < t in the order Array.prototype.sort() uses without a comparator
\* (code units, a proper prefix first).
RECURSIVE StrLess(_, _)
StrLess(s, t) ==
  IF t = <<>> THEN FALSE
  ELSE IF s = <<>> THEN TRUE
  ELSE IF CharCode(Head(s)) # CharCode(Head(t))
       THEN CharCode(Head(s)) < CharCode(Head(t))
       ELSE StrLess(Tail(s), Tail(t))

\* files.sort().reverse() of a set of distinct names: descending order.
RECURSIVE sortReverse(_)
sortReverse(files) ==
  IF files = {} THEN <<>>
  ELSE LET top == CHOOSE f \in files : \A g \in files \ {f} : StrLess(g, f)
       IN <<top>> \o sortReverse(files \ {top})

\* Value of a lookup that found nothing (null).
NoFile == <<>>

\* findBackupFile(dbName, backupPath) on a directory that exists and lists as
\* `files`: the first of the matching names in descending order, or null.
findBackupFile(dbName, files) ==
  LET backupFiles ==
        sortReverse({file \in files :
                       startsWith(file, dbName \o <<"_">>) /\ endsWith(file, SqlExt)})
  IN IF Len(backupFiles) > 0 THEN backupFiles[1] ELSE NoFile

\* ------------------------------------------------------------------- state
VARIABLES
  mode,          \* which script runs: "export" or "import"
  databases,     \* the credential records readCredentials returns (their hosts)
  credFile,      \* credentials file: "missing", "corrupt" or "ok"
  rootPassword,  \* what the operator types at the root password prompt
  backupDir,     \* backup directory: "absent", "unlistable" or "dir"
  dirFiles,      \* names listed in the backup directory (import)
  logDirExists,  \* whether the log directory exists
  pc,            \* position of main()
  i,             \* the record of the current iteration of main()'s loop,
                 \* 1-based: 0 before the loop, the code's i + 1 from the head
                 \* of an iteration to the head of the next
  stats,         \* ExportStats / ImportStats
  exitCode,      \* process exit status, -1 while the process runs
  exitAt,        \* where the process ended
  logStream,     \* Logger.logStream
  logFile,       \* the run log on disk: [written, content]
  procs,         \* the children and timers that can still raise an event
  backupFile,    \* main's backupFile of the current record (import)
  calls,         \* the promises of the current loop iteration, in call order
  written,       \* records whose artifact the export wrote
  spawned,       \* number of children spawned so far, by kind
  outcome,       \* per record, the counter main incremented for it
  callArgs,      \* a function of the scripts applied on its own: name and arguments
  callValue      \* what that function returned

vars == << mode, databases, credFile, rootPassword, backupDir, dirFiles,
           logDirExists, pc, i, stats, exitCode, exitAt, logStream, logFile,
           procs, backupFile, calls, written, spawned, outcome,
           callArgs, callValue >>

inputs == << mode, databases, credFile, rootPassword, backupDir, dirFiles >>

\* The variables of a function applied on its own; a run of a script leaves
\* them alone.
pureCall == << callArgs, callValue >>
NoCall == [fn |-> "none"]

N == Len(databases)

\* A log entry: the message (by its fixed text) and the record it names.
Entry(msg, db) == [msg |-> msg, db |-> db]


\* ------------------------------------------------------------------ Logger
\* Logger.flush(): writeFileSync(this.logFile, ...) replaces the file by the
\* whole buffer.
flush(stream) == [written |-> TRUE, content |-> stream]

\* Logger.log(), called once for each of `entries` in turn: push the entry,
\* and flush when the buffer length is a multiple of FlushEvery.  The flush
\* throws when the log directory does not exist (writeFileSync, ENOENT); the
\* calls after the one that threw do not happen.
RECURSIVE log(_, _, _, _)
log(stream, file, dirOk, entries) ==
  IF entries = <<>> THEN [stream |-> stream, file |-> file, threw |-> FALSE]
  ELSE LET pushed == Append(stream, Head(entries))
           periodic == Len(pushed) % FlushEvery = 0
       IN IF periodic /\ ~dirOk
          THEN [stream |-> pushed, file |-> file, threw |-> TRUE]
          ELSE log(pushed, IF periodic THEN flush(pushed) ELSE file, dirOk,
                   Tail(entries))

\* The buffer and the file after logging `entries` from the current state.
logNow(entries) == log(logStream, logFile, logDirExists, entries)

\* ------------------------------------------------------------ process exit
\* process.exit(code), or the end of the process by an uncaught exception.
exit(code, at) ==
  /\ pc' = "exited"
  /\ exitCode' = code
  /\ exitAt' = at

\* An exception leaves main(): main().catch(...) calls process.exit(1).
mainRejects == exit(1, "rejected")

\* An exception leaves an event handler: uncaught exception, exit status 1.
uncaught == exit(1, "uncaught")

\* --------------------------------------------------------- child processes
\* spawn(...) together with the promise around it and, for dump and restore,
\* the setTimeout that is registered with it and never cleared.
spawn(kind, db, spawnFailed, timer) ==
  [ kind |-> kind, db |-> db,
    spawnFailed |-> spawnFailed,   \* the child could not be started
    errorDelivered |-> FALSE,      \* the child's 'error' event was handled
    exited |-> FALSE,              \* the child's 'close' event was handled
    killed |-> FALSE,              \* kill() signalled the running child
    result |-> "pending",          \* the promise: pending, true, false, rejected
    timer |-> timer ]              \* none, pending or fired

\* The child process exists and has not ended.
alive(p) == ~p.spawnFailed /\ ~p.exited

\* No event of child p can change anything any more.  Its promise is settled, so
\* every resolve() to come does nothing, and
\*  - the child closed and no timer is armed; or
\*  - it is an administrative or restore child that closed: the armed timer of
\*    a restore attempt only calls kill() on a child that is gone; or
\*  - it is a restore child that failed to spawn and whose error event was
\*    handled: its close handler logs nothing for a code other than 0.
finished(p) ==
  /\ p.result # "pending"
  /\ \/ p.exited /\ p.timer # "pending"
     \/ p.exited /\ p.kind # "dump"
     \/ p.kind = "restore" /\ p.spawnFailed /\ p.errorDelivered

\* The children and timers still known to the event loop.
RECURSIVE prune(_)
prune(ps) ==
  IF ps = <<>> THEN <<>>
  ELSE IF finished(Head(ps)) THEN prune(Tail(ps))
  ELSE <<Head(ps)>> \o prune(Tail(ps))

\* The promise main() obtained from a call: createDatabaseAndUser,
\* importDatabaseWithHost(targetHost) or dumpDatabase.  `by` is the event whose
\* resolve() settled it.
call(kind, host) == [kind |-> kind, host |-> host, result |-> "pending", by |-> "none"]

\* A plausible slip: the value of the await is not looked at.
success_any == TRUE

\* The value the last await of the current iteration delivered.
success == calls[Len(calls)].result = "true"

\* restore attempts of the current iteration
attempts == {k \in 1..Len(calls) : calls[k].kind = "restore"}

\* Where main() continues when the promise it awaits settles.
continuation ==
  LET last == calls[Len(calls)]
  IN CASE last.kind = "dump" -> "afterDump"
       [] last.kind = "admin" -> "afterSetup"
       [] last.kind = "restore" ->
            IF Cardinality(attempts) > 1 THEN "afterSecond" ELSE "afterFirst"

\* --------------------------------------------------------------------- Init
NoStats == [total |-> 0, successful |-> 0, failed |-> 0, skipped |-> 0]

Init ==
  /\ mode \in Modes
  /\ \E n \in 0..MaxDb : databases \in [1..n -> Hosts]
  /\ credFile \in {"missing", "corrupt", "ok"}
  /\ rootPassword \in {"", "secret"}
  /\ backupDir \in {"absent", "unlistable", "dir"}
  /\ dirFiles \in DirChoices
  /\ logDirExists \in BOOLEAN
  \* inputs a script never reads are fixed
  /\ mode = "export" => rootPassword = "secret" /\ dirFiles = {} /\ backupDir # "unlistable"
  /\ backupDir # "dir" => dirFiles = {}
  /\ credFile # "ok" => databases = <<>>
  /\ pc = "start"
  /\ i = 0
  /\ stats = NoStats
  /\ exitCode = -1
  /\ exitAt = "running"
  /\ logStream = <<>>
  /\ logFile = [written |-> FALSE, content |-> <<>>]
  /\ procs = <<>>
  /\ backupFile = NoFile
  /\ calls = <<>>
  /\ written = {}
  /\ spawned = [dump |-> 0, admin |-> 0, restore |-> 0]
  /\ outcome = [k \in 1..N |-> "none"]
  /\ callArgs = NoCall
  /\ callValue = NoCall

\* ----------------------------------------------------------------- main()
\* A step of main() that logs `entries` and then does `ok`: a throwing log call
\* rejects main(), `ok` does not happen and `thrown` says what stays as it is.
step(entries, ok, thrown) ==
  LET l == logNow(entries)
  IN /\ logStream' = l.stream
     /\ logFile' = l.file
     /\ IF l.threw THEN mainRejects /\ thrown ELSE ok

\* main() up to the await inside readCredentials: new Logger (the export's
\* constructor creates the log directory, the import's does not), the import's
\* check of the backup directory, and the existence check of readCredentials.
main_start ==
  /\ pc = "start"
  /\ logDirExists' = (mode = "export" \/ logDirExists)
  /\ LET l == log(logStream, logFile, logDirExists',
                  IF mode = "import" /\ backupDir = "absent"
                  THEN <<Entry("Backup directory not found", 0),
                         Entry("Please ensure you have copied the backups folder", 0)>>
                  ELSE IF credFile = "missing"
                  THEN <<Entry("Credentials file not found", 0),
                         Entry("Please create the credentials XLSX file", 0)>>
                  ELSE <<Entry("Reading credentials", 0)>>)
     IN /\ logStream' = l.stream
        /\ logFile' = l.file
        /\ IF l.threw THEN mainRejects
           ELSE IF (mode = "import" /\ backupDir = "absent") \/ credFile = "missing"
           THEN exit(1, "config")
           ELSE pc' = "readFile" /\ UNCHANGED <<exitCode, exitAt>>
  /\ UNCHANGED <<pureCall, inputs, i, stats, procs, backupFile, calls, written, spawned, outcome>>

\* readCredentials after workbook.xlsx.readFile settled, and main() up to its
\* next await: the export creates the backup directory and reaches the loop, the
\* import asks for the root credentials.
readCredentials ==
  /\ pc = "readFile"
  /\ LET created == mode = "export" /\ backupDir = "absent"
     IN step(IF credFile = "corrupt"
             THEN <<Entry("Error reading credentials file", 0)>>
             ELSE <<Entry("Found databases", 0)>>
                  \o (IF created THEN <<Entry("Created backup directory", 0)>> ELSE <<>>),
             IF credFile = "corrupt"
             THEN exit(1, "config") /\ UNCHANGED <<backupDir, stats>>
             ELSE IF mode = "export"
             THEN /\ backupDir' = "dir"
                  /\ stats' = [NoStats EXCEPT !.total = N]
                  /\ pc' = "loop"
                  /\ UNCHANGED <<exitCode, exitAt>>
             ELSE /\ pc' = "prompt"
                  /\ UNCHANGED <<backupDir, stats, exitCode, exitAt>>,
             UNCHANGED <<backupDir, stats>>)
  /\ UNCHANGED <<pureCall, mode, databases, credFile, rootPassword, dirFiles, logDirExists, i,
                 procs, backupFile, calls, written, spawned, outcome>>

\* A plausible slip: the answer to the password question is not tested.
emptyPassword_never(password) == FALSE

\* "if (!password)": the administrator password is empty.
emptyPassword(password) == password = ""

\* getRootCredentials after the three questions were answered, and main() up to
\* the loop: an empty password ends the process.
getRootCredentials ==
  /\ pc = "prompt"
  /\ IF emptyPassword(rootPassword)
     THEN exit(1, "config") /\ UNCHANGED stats
     ELSE /\ stats' = [NoStats EXCEPT !.total = N]
          /\ pc' = "loop"
          /\ UNCHANGED <<exitCode, exitAt>>
  /\ UNCHANGED <<pureCall, inputs, logDirExists, i, logStream, logFile, procs, backupFile,
                 calls, written, spawned, outcome>>

\* A plausible slip: the counter is incremented at two places of the branch.
count_twice(counter, db) ==
  /\ stats' = [stats EXCEPT ![counter] = @ + 2]
  /\ outcome' = [outcome EXCEPT ![db] = counter]
  /\ pc' = "loop"
  /\ UNCHANGED <<exitCode, exitAt>>

\* A plausible slip: the failure branch does not count.
count_dropsFailed(counter, db) ==
  /\ stats' = IF counter = "failed" THEN stats ELSE [stats EXCEPT ![counter] = @ + 1]
  /\ outcome' = [outcome EXCEPT ![db] = counter]
  /\ pc' = "loop"
  /\ UNCHANGED <<exitCode, exitAt>>

\* stats.<counter>++ for record db; main() is at the end of the iteration.
count(counter, db) ==
  /\ stats' = [stats EXCEPT ![counter] = @ + 1]
  /\ outcome' = [outcome EXCEPT ![db] = counter]
  /\ pc' = "loop"
  /\ UNCHANGED <<exitCode, exitAt>>

\* main() suspends on the promise of a newly spawned child of record db;
\* `before` are the earlier calls of the iteration.
await(before, kind, db, host, spawnFailed, timer) ==
  /\ procs' = Append(procs, spawn(kind, db, spawnFailed, timer))
  /\ spawned' = [spawned EXCEPT ![kind] = @ + 1]
  /\ calls' = Append(before, call(kind, host))
  /\ pc' = "await"
  /\ UNCHANGED <<exitCode, exitAt>>

\* export main(), one iteration up to the await: dumpDatabase logs, spawns
\* mysqldump and arms the 5 minute timer.
export_loop ==
  /\ mode = "export"
  /\ pc = "loop"
  /\ i < N
  /\ i' = i + 1
  /\ \E spawnFailed \in BOOLEAN :
       step(<<Entry("Starting backup", i')>>,
            await(<<>>, "dump", i', databases[i'], spawnFailed, "pending"),
            calls' = <<>> /\ UNCHANGED <<procs, spawned>>)
  /\ UNCHANGED <<pureCall, inputs, logDirExists, stats, backupFile, written, outcome>>

\* A plausible slip: a failed dump is counted as skipped.
dumpCounter_skips(ok) == IF ok THEN "successful" ELSE "skipped"

\* The counter main() increments for the result of dumpDatabase.
dumpCounter(ok) == IF ok THEN "successful" ELSE "failed"

\* export main() after "await dumpDatabase(...)".
export_afterDump ==
  /\ mode = "export"
  /\ pc = "afterDump"
  /\ count(dumpCounter(success), i)
  /\ UNCHANGED <<pureCall, inputs, logDirExists, i, logStream, logFile, procs, backupFile, calls,
                 written, spawned>>

\* A plausible slip: the result of the lookup is not tested.
noBackup_never(file) == FALSE

\* "if (!backupFile)": the lookup found nothing.
noBackup(file) == file = NoFile

\* import main(), one iteration up to the continue or the await: findBackupFile
\* (readdirSync throws on a directory that cannot be listed), the skip of a
\* record without backup, else createDatabaseAndUser, which logs and spawns the
\* administrative mysql.  That child has no timer.
import_loop ==
  /\ mode = "import"
  /\ pc = "loop"
  /\ i < N
  /\ i' = i + 1
  /\ IF backupDir = "unlistable"
     THEN /\ mainRejects
          /\ calls' = <<>>
          /\ UNCHANGED <<logStream, logFile, stats, outcome, procs, spawned, backupFile>>
     ELSE /\ backupFile' = findBackupFile(DbNames[i'], dirFiles)
          /\ IF noBackup(backupFile')
             THEN /\ step(<<Entry("No backup file found, skipping", i')>>,
                          count("skipped", i'),
                          UNCHANGED <<stats, outcome>>)
                  /\ calls' = <<>>
                  /\ UNCHANGED <<procs, spawned>>
             ELSE /\ \E spawnFailed \in BOOLEAN :
                       step(<<Entry("Found backup", i'),
                              Entry("Creating database and user", i')>>,
                            await(<<>>, "admin", i', "root", spawnFailed, "none"),
                            calls' = <<>> /\ UNCHANGED <<procs, spawned>>)
                  /\ UNCHANGED <<stats, outcome>>
  /\ UNCHANGED <<pureCall, inputs, logDirExists, written>>

\* importDatabaseWithHost up to the end of the promise executor: spawn mysql,
\* readFileSync of the artifact (an exception here leaves the executor, rejects
\* the promise and, through the awaits, main()), the handlers, the write to
\* stdin and the 10 minute timer.
importDatabaseWithHost(targetHost, spawnFailed, readOk) ==
  IF readOk
  THEN await(calls, "restore", i, targetHost, spawnFailed, "pending")
  ELSE /\ procs' = Append(procs, [spawn("restore", i, spawnFailed, "none")
                                    EXCEPT !.result = "rejected"])
       /\ spawned' = [spawned EXCEPT !.restore = @ + 1]
       /\ calls' = Append(calls, [call("restore", targetHost)
                                    EXCEPT !.result = "rejected", !.by = "throw"])
       /\ mainRejects

\* A plausible slip: the result of the provisioning is not tested.
setupFailed_never(ok) == FALSE

\* "if (!setupSuccess)": the provisioning failed.
setupFailed(ok) == ~ok

\* import main() after "await createDatabaseAndUser(...)": a failed setup counts
\* the record failed; else importDatabase logs and makes the first attempt
\* against the record's host.
import_afterSetup ==
  /\ mode = "import"
  /\ pc = "afterSetup"
  /\ IF setupFailed(success)
     THEN /\ step(<<Entry("Skipping import due to setup failure", i)>>,
                  count("failed", i),
                  UNCHANGED <<stats, outcome>>)
          /\ UNCHANGED <<procs, calls, spawned>>
     ELSE /\ \E spawnFailed \in BOOLEAN, readOk \in BOOLEAN :
               step(<<Entry("Importing backup", i)>>,
                    importDatabaseWithHost(databases[i], spawnFailed, readOk),
                    UNCHANGED <<procs, calls, spawned>>)
          /\ UNCHANGED <<stats, outcome>>
  /\ UNCHANGED <<pureCall, inputs, logDirExists, i, backupFile, written>>

\* A plausible slip: the two branches on importSuccess are exchanged.
importCounter_swapped(ok) == IF ok THEN "failed" ELSE "successful"

\* The counter main() increments for the result of importDatabase.
importCounter(ok) == IF ok THEN "successful" ELSE "failed"

\* The end of importDatabase (a failure is logged) and main()'s counting of
\* its result.
importDatabase_return ==
  step(IF success THEN <<>>
       ELSE <<Entry("Import failed with both connection methods", i)>>,
       count(importCounter(success), i),
       UNCHANGED <<stats, outcome>>)

\* A plausible slip: no host is retried.
fallbackHost_none(host) == ""

\* A plausible slip: a failed attempt is retried against the same host.
fallbackHost_same(host) == host

\* A plausible slip: every host other than localhost is retried with localhost.
fallbackHost_any(host) == IF host = "localhost" THEN "127.0.0.1" ELSE "localhost"

\* The host importDatabase retries with after a failed first attempt, "" if none.
fallbackHost(host) ==
  IF host = "localhost" THEN "127.0.0.1"
  ELSE IF host = "127.0.0.1" THEN "localhost"
  ELSE ""

\* importDatabase after the first "await importDatabaseWithHost(...)": a failed
\* attempt against one loopback spelling is retried against the other.
importDatabase_afterFirst ==
  /\ mode = "import"
  /\ pc = "afterFirst"
  /\ IF ~success /\ fallbackHost(databases[i]) # ""
     THEN /\ \E spawnFailed \in BOOLEAN, readOk \in BOOLEAN :
               step(<<Entry("Host failed, retrying with the other", i)>>,
                    importDatabaseWithHost(fallbackHost(databases[i]), spawnFailed,
                                           readOk),
                    UNCHANGED <<procs, calls, spawned>>)
          /\ UNCHANGED <<stats, outcome>>
     ELSE /\ importDatabase_return
          /\ UNCHANGED <<procs, calls, spawned>>
  /\ UNCHANGED <<pureCall, inputs, logDirExists, i, backupFile, written>>

\* importDatabase after the second "await importDatabaseWithHost(...)".
importDatabase_afterSecond ==
  /\ mode = "import"
  /\ pc = "afterSecond"
  /\ importDatabase_return
  /\ UNCHANGED <<pureCall, inputs, logDirExists, i, procs, backupFile, calls, written, spawned>>

\* The overall result main() reports: whether it calls process.exit(1).
overallFailed ==
  IF mode = "export" THEN stats.failed > 0
  ELSE stats.failed > 0 \/ stats.skipped > 0

\* main() after the loop: the final flush (writeFileSync throws when the log
\* directory does not exist, which rejects main()), the summary, and
\* process.exit(1) for an overall-failed run; otherwise main() returns.
main_summary ==
  /\ pc = "loop"
  /\ i >= N
  /\ IF ~logDirExists
     THEN exit(1, "final flush") /\ UNCHANGED logFile
     ELSE /\ logFile' = flush(logStream)
          /\ IF overallFailed
             THEN exit(1, "summary")
             ELSE pc' = "returned" /\ UNCHANGED <<exitCode, exitAt>>
  /\ UNCHANGED <<pureCall, inputs, logDirExists, i, stats, logStream, procs, backupFile,
                 calls, written, spawned, outcome>>

\* After main() returned the process lives while a timer is armed or a child
\* has not closed; then it ends with status 0.
process_end ==
  /\ pc = "returned"
  /\ procs = <<>>
  /\ exit(0, "end")
  /\ UNCHANGED <<pureCall, inputs, logDirExists, i, stats, logStream, logFile, procs,
                 backupFile, calls, written, spawned, outcome>>

\* ----------------------------------------------------------- event handlers
\* Events are delivered while main() is suspended on a promise or has returned.
eventLoop == pc \in {"await", "returned"}

\* The 'error' event of a failed spawn is emitted from process.nextTick, ahead of
\* every other event: no such event is outstanding.
noSpawnError ==
  \A d \in 1..Len(procs) : ~(procs[d].spawnFailed /\ ~procs[d].errorDelivered)

\* resolve(v) inside the promise of child record p: only the first call settles.
resolve(p, v) ==
  IF p.result = "pending"
  THEN [p EXCEPT !.result = IF v THEN "true" ELSE "false"]
  ELSE p

\* A plausible slip: every event reports to main(), not only the first of its
\* child (a callback in the place of the promise).
handler_always(c, p1, entries, v, by) ==
  LET l == logNow(entries)
  IN /\ logStream' = l.stream
     /\ logFile' = l.file
     /\ IF l.threw
        THEN /\ procs' = [procs EXCEPT ![c] = p1]
             /\ uncaught
             /\ UNCHANGED calls
        ELSE /\ procs' = prune([procs EXCEPT ![c] = resolve(p1, v)])
             /\ UNCHANGED <<exitCode, exitAt>>
             /\ IF calls # <<>> /\ pc = "await"
                THEN /\ pc' = continuation
                     /\ calls' = [calls EXCEPT ![Len(calls)] =
                                    [@ EXCEPT !.result = IF v THEN "true" ELSE "false",
                                              !.by = by]]
                ELSE UNCHANGED <<pc, calls>>

\* An event handler of child c: the child's record becomes p1, the handler logs
\* `entries` and then calls resolve(v).  A throwing log call ends the handler, and
\* the process, before resolve.  Settling the promise main() awaits makes main()
\* runnable.
handler(c, p1, entries, v, by) ==
  LET l == logNow(entries)
  IN /\ logStream' = l.stream
     /\ logFile' = l.file
     /\ IF l.threw
        THEN /\ procs' = [procs EXCEPT ![c] = p1]
             /\ uncaught
             /\ UNCHANGED calls
        ELSE /\ procs' = prune([procs EXCEPT ![c] = resolve(p1, v)])
             /\ UNCHANGED <<exitCode, exitAt>>
             /\ IF p1.result = "pending"
                THEN /\ pc' = continuation
                     /\ calls' = [calls EXCEPT ![Len(calls)] =
                                    [@ EXCEPT !.result = IF v THEN "true" ELSE "false",
                                              !.by = by]]
                ELSE UNCHANGED <<pc, calls>>

\* A plausible slip: the exit code is not tested.
cleanExit_any(code) == TRUE

\* "if (code === 0)" of the three close handlers.
cleanExit(code) == code = 0

\* How a close event settles a promise, as recorded in `calls`.
closeBy(code) == IF code = 0 THEN "exit 0" ELSE "exit non-0"

\* The close event of child p may carry `code`: a child that failed to spawn
\* closes, after its error event, with a code that is not 0.
mayClose(p, code) ==
  /\ ~p.exited
  /\ p.spawnFailed => code # 0

\* The record of child p once its close event is handled.
closed(p) == [p EXCEPT !.exited = TRUE]

\* The timer of child c is due: timers of one run have one delay and so fire in
\* the order they were armed.
due(c) ==
  /\ procs[c].timer = "pending"
  /\ \A d \in 1..(c - 1) : procs[d].timer # "pending"

\* A plausible slip: the timer callback resolves without kill().
timedOut_noKill(p) == [p EXCEPT !.timer = "fired"]

\* The record of child p once its timer fired and called kill().
timedOut(p) == [p EXCEPT !.timer = "fired", !.killed = @ \/ alive(p)]

\* A plausible slip: the output of the dump is dropped, not written.
writeFileSync_lost(files, db) == files

\* writeFileSync(backupFile, buffer) of the dump of record db, when it does not
\* throw: the artifact of db is among the files written.
writeFileSync(files, db) == files \cup {db}

\* mysqldump.on('close'): code 0 writes the artifact (writeFileSync may throw),
\* logs and resolves true; any other code logs and resolves false.
dump_close(c) ==
  /\ eventLoop /\ noSpawnError
  /\ procs[c].kind = "dump"
  /\ \E code \in CloseCodes, writeOk \in BOOLEAN :
       /\ mayClose(procs[c], code)
       /\ IF cleanExit(code)
          THEN IF writeOk
               THEN /\ written' = writeFileSync(written, procs[c].db)
                    /\ handler(c, closed(procs[c]),
                               <<Entry("Backup successful", procs[c].db)>>, TRUE,
                               closeBy(code))
               ELSE /\ procs' = [procs EXCEPT ![c] = closed(procs[c])]
                    /\ uncaught
                    /\ UNCHANGED <<written, logStream, logFile, calls>>
          ELSE /\ handler(c, closed(procs[c]),
                          <<Entry("Backup failed", procs[c].db)>>, FALSE, closeBy(code))
               /\ UNCHANGED written
  /\ UNCHANGED <<pureCall, inputs, logDirExists, i, stats, backupFile, spawned, outcome>>

\* mysqldump.on('error'): the spawn failed.
dump_error(c) ==
  /\ eventLoop
  /\ procs[c].kind = "dump"
  /\ procs[c].spawnFailed /\ ~procs[c].errorDelivered
  /\ handler(c, [procs[c] EXCEPT !.errorDelivered = TRUE],
             <<Entry("Error backing up", procs[c].db)>>, FALSE, "error")
  /\ UNCHANGED <<pureCall, inputs, logDirExists, i, stats, backupFile, written, spawned, outcome>>

\* The 5 minute timer of a dump: kill, log, resolve(false).
dump_timeout(c) ==
  /\ eventLoop /\ noSpawnError
  /\ procs[c].kind = "dump"
  /\ due(c)
  /\ handler(c, timedOut(procs[c]),
             <<Entry("Backup timeout", procs[c].db)>>, FALSE, "timer")
  /\ UNCHANGED <<pureCall, inputs, logDirExists, i, stats, backupFile, written, spawned, outcome>>

\* createDatabaseAndUser, mysql.on('close').
admin_close(c) ==
  /\ eventLoop /\ noSpawnError
  /\ procs[c].kind = "admin"
  /\ \E code \in CloseCodes :
       /\ mayClose(procs[c], code)
       /\ IF cleanExit(code)
          THEN handler(c, closed(procs[c]),
                       <<Entry("Database and user created", procs[c].db)>>, TRUE,
                       closeBy(code))
          ELSE handler(c, closed(procs[c]),
                       <<Entry("Failed to create database/user", procs[c].db)>>, FALSE,
                       closeBy(code))
  /\ UNCHANGED <<pureCall, inputs, logDirExists, i, stats, backupFile, written, spawned, outcome>>

\* createDatabaseAndUser, mysql.on('error').
admin_error(c) ==
  /\ eventLoop
  /\ procs[c].kind = "admin"
  /\ procs[c].spawnFailed /\ ~procs[c].errorDelivered
  /\ handler(c, [procs[c] EXCEPT !.errorDelivered = TRUE],
             <<Entry("Error creating database/user", procs[c].db)>>, FALSE, "error")
  /\ UNCHANGED <<pureCall, inputs, logDirExists, i, stats, backupFile, written, spawned, outcome>>

\* importDatabaseWithHost, mysql.on('close'): only code 0 logs.
restore_close(c) ==
  /\ eventLoop /\ noSpawnError
  /\ procs[c].kind = "restore"
  /\ \E code \in CloseCodes :
       /\ mayClose(procs[c], code)
       /\ IF cleanExit(code)
          THEN handler(c, closed(procs[c]),
                       <<Entry("Import successful", procs[c].db)>>, TRUE, closeBy(code))
          ELSE handler(c, closed(procs[c]), <<>>, FALSE, closeBy(code))
  /\ UNCHANGED <<pureCall, inputs, logDirExists, i, stats, backupFile, written, spawned, outcome>>

\* importDatabaseWithHost, mysql.on('error').
restore_error(c) ==
  /\ eventLoop
  /\ procs[c].kind = "restore"
  /\ procs[c].spawnFailed /\ ~procs[c].errorDelivered
  /\ handler(c, [procs[c] EXCEPT !.errorDelivered = TRUE], <<>>, FALSE, "error")
  /\ UNCHANGED <<pureCall, inputs, logDirExists, i, stats, backupFile, written, spawned, outcome>>

\* importDatabaseWithHost, mysql.stdin.on('error'): the child stopped reading
\* its input before all of it was written.  Once the promise is settled the
\* handler changes nothing.
restore_stdin_error(c) ==
  /\ eventLoop /\ noSpawnError
  /\ procs[c].kind = "restore"
  /\ procs[c].result = "pending" /\ ~procs[c].exited
  /\ handler(c, procs[c], <<>>, FALSE, "stdin")
  /\ UNCHANGED <<pureCall, inputs, logDirExists, i, stats, backupFile, written, spawned, outcome>>

\* The 10 minute timer of a restore attempt: kill, resolve(false).
restore_timeout(c) ==
  /\ eventLoop /\ noSpawnError
  /\ procs[c].kind = "restore"
  /\ due(c)
  /\ handler(c, timedOut(procs[c]), <<>>, FALSE, "timer")
  /\ UNCHANGED <<pureCall, inputs, logDirExists, i, stats, backupFile, written, spawned, outcome>>

\* --------------------------------------------------------------------- Next
Next ==
  \/ main_start
  \/ readCredentials
  \/ getRootCredentials
  \/ export_loop
  \/ export_afterDump
  \/ import_loop
  \/ import_afterSetup
  \/ importDatabase_afterFirst
  \/ importDatabase_afterSecond
  \/ main_summary
  \/ process_end
  \/ \E c \in 1..Len(procs) : dump_close(c)
  \/ \E c \in 1..Len(procs) : dump_error(c)
  \/ \E c \in 1..Len(procs) : dump_timeout(c)
  \/ \E c \in 1..Len(procs) : admin_close(c)
  \/ \E c \in 1..Len(procs) : admin_error(c)
  \/ \E c \in 1..Len(procs) : restore_close(c)
  \/ \E c \in 1..Len(procs) : restore_error(c)
  \/ \E c \in 1..Len(procs) : restore_stdin_error(c)
  \/ \E c \in 1..Len(procs) : restore_timeout(c)

Spec == Init /\ [][Next]_vars

\* ------------------------------------------- functions applied on their own
\* Largest number of entries of a directory handed to findBackupFile.
MaxFiles == 3

\* Time stamps and extensions of the entries of such a directory.
Stamps == {"1", "2"}
Exts == {SqlExt, TxtExt}

\* The entries a directory may hold, and the directories.
FileNames ==
  {BackupName(DbNames[n], stamp, ext) : n \in 1..Len(DbNames), stamp \in Stamps, ext \in Exts}
Directories == {files \in SUBSET FileNames : Cardinality(files) <= MaxFiles}

\* findBackupFile(dbName, backupPath) from its first line: a backup path that
\* does not exist gives null.  The path returned is represented by the name
\* of its entry.
findBackupFileAt(dbName, exists, files) ==
  IF ~exists THEN NoFile ELSE findBackupFile(dbName, files)

\* Arguments of findBackupFile: a database name and a backup path that does
\* not exist, or exists and lists as `files`.
findBackupFileArgs ==
  {[fn |-> "findBackupFile", dbName |-> DbNames[n], exists |-> exists, files |-> files] :
     n \in 1..Len(DbNames), exists \in BOOLEAN, files \in Directories}

\* Instants at which a dump or a run starts: day of January 2024, hour,
\* minute and second (UTC), milliseconds 0.
Times == [day : {1, 2}, hour : {9, 10}, minute : {0, 59}, second : {0, 1}]

\* Seconds from the start of the month to instant t.
seconds(t) == ((t.day * 24 + t.hour) * 60 + t.minute) * 60 + t.second

\* n in two decimal digits.
pad2(n) ==
  LET digits == <<"0", "1", "2", "3", "4", "5", "6", "7", "8", "9">>
  IN <<digits[(n \div 10) + 1], digits[(n % 10) + 1]>>

\* Date.prototype.toISOString(): "2024-01-DDTHH:MM:SS.000Z"
toISOString(t) ==
  <<"2", "0", "2", "4", "-", "0", "1", "-">> \o pad2(t.day) \o <<"T">>
    \o pad2(t.hour) \o <<":">> \o pad2(t.minute) \o <<":">> \o pad2(t.second)
    \o <<".", "0", "0", "0", "Z">>

\* s.replace(/[...]/g, c): every character of `chars` becomes c.
replace(s, chars, c) == [j \in 1..Len(s) |-> IF s[j] \in chars THEN c ELSE s[j]]

\* s.split(sep) for a separator of one character.
RECURSIVE split(_, _)
split(s, sep) ==
  IF \A j \in 1..Len(s) : s[j] # sep THEN <<s>>
  ELSE LET at == CHOOSE j \in 1..Len(s) :
                   s[j] = sep /\ \A h \in 1..(j - 1) : s[h] # sep
       IN <<SubSeq(s, 1, at - 1)>> \o split(SubSeq(s, at + 1, Len(s)), sep)

\* The dateTime of dumpDatabase at instant t:
\*   timestamp = toISOString().replace(/[:.]/g, '-').split('T')
\*   dateTime = `${timestamp[0]}_${timestamp[1].split('-')[0]}`
dateTime(t) ==
  LET timestamp == split(replace(toISOString(t), {":", "."}, "-"), "T")
  IN timestamp[1] \o <<"_">> \o split(timestamp[2], "-")[1]

\* The name of the artifact of a dump of dbName started at t:
\* `${database_name}_${dateTime}.sql`
backupFileOf(dbName, t) == dbName \o <<"_">> \o dateTime(t) \o SqlExt

\* Two dumps of one database, started at two instants.
backupFileArgs ==
  {[fn |-> "dumpDatabase", dbName |-> DbNames[n], first |-> t1, second |-> t2] :
     n \in 1..Len(DbNames), t1 \in Times, t2 \in Times}

\* A MySQL server as the provisioning script sees it: its databases, its
\* accounts 'user'@'host', and the grants of all privileges (account, database).
ServerDbs == {"a", "b"}
Accounts == {<<"u", "localhost">>, <<"u", "db.remote">>}
Servers ==
  {sv \in [databases : SUBSET ServerDbs, users : SUBSET Accounts,
           grants : SUBSET (Accounts \X ServerDbs)] :
     \A g \in sv.grants : g[1] \in sv.users}

\* A plausible slip: the script creates without IF NOT EXISTS.
sqlCommands_plainCreate(database_name, account) ==
  << [stmt |-> "CREATE DATABASE", ifNotExists |-> FALSE, db |-> database_name],
     [stmt |-> "CREATE USER", ifNotExists |-> FALSE, account |-> account],
     [stmt |-> "GRANT ALL PRIVILEGES", db |-> database_name, account |-> account],
     [stmt |-> "FLUSH PRIVILEGES"] >>

\* sqlCommands of createDatabaseAndUser for a record with database_name and
\* account 'username'@'host'.
sqlCommands(database_name, account) ==
  << [stmt |-> "CREATE DATABASE", ifNotExists |-> TRUE, db |-> database_name],
     [stmt |-> "CREATE USER", ifNotExists |-> TRUE, account |-> account],
     [stmt |-> "GRANT ALL PRIVILEGES", db |-> database_name, account |-> account],
     [stmt |-> "FLUSH PRIVILEGES"] >>

\* The server after one statement, and whether the statement is an error:
\* creating what exists is an error without IF NOT EXISTS and does nothing
\* with it; GRANT needs the account to exist; an error changes nothing.
execute(sv, st) ==
  CASE st.stmt = "CREATE DATABASE" ->
         IF st.db \in sv.databases
         THEN [server |-> sv, error |-> ~st.ifNotExists]
         ELSE [server |-> [sv EXCEPT !.databases = @ \cup {st.db}], error |-> FALSE]
    [] st.stmt = "CREATE USER" ->
         IF st.account \in sv.users
         THEN [server |-> sv, error |-> ~st.ifNotExists]
         ELSE [server |-> [sv EXCEPT !.users = @ \cup {st.account}], error |-> FALSE]
    [] st.stmt = "GRANT ALL PRIVILEGES" ->
         IF st.account \in sv.users
         THEN [server |-> [sv EXCEPT !.grants = @ \cup {<<st.account, st.db>>}],
               error |-> FALSE]
         ELSE [server |-> sv, error |-> TRUE]
    [] st.stmt = "FLUSH PRIVILEGES" -> [server |-> sv, error |-> FALSE]

\* mysql -e <script>: the statements in order, stopping at the first error.
RECURSIVE mysql(_, _)
mysql(sv, script) ==
  IF script = <<>> THEN [server |-> sv, error |-> FALSE]
  ELSE LET r == execute(sv, Head(script))
       IN IF r.error THEN r ELSE mysql(r.server, Tail(script))

\* A server and the record the provisioning script is run for.
sqlCommandsArgs ==
  {[fn |-> "createDatabaseAndUser", server |-> sv, database_name |-> db, account |-> acc] :
     sv \in Servers, db \in ServerDbs, acc \in Accounts}

\* ".log", as characters.
LogExt == <<".", "l", "o", "g">>

\* The name of the log file of a run of `script` started at t, as the Logger
\* constructor builds it with the same dateTime expression:
\* `export_${dateTime}.log`, `import_${dateTime}.log`.  The script's name
\* stands as one element.
logFileOf(script, t) == <<script, "_">> \o dateTime(t) \o LogExt

\* Two runs of one script, started at two instants.
logFileArgs ==
  {[fn |-> "Logger", script |-> script, first |-> t1, second |-> t2] :
     script \in Modes, t1 \in Times, t2 \in Times}

\* The instants the dumps of one export run start at.
DumpTimes == {t \in Times : t.day = 1 /\ t.hour = 9 /\ t.minute = 0}

\* An export into an empty directory: the records dumped (distinct names, by
\* their place in DbNames) and the instant each dump starts at; every dump
\* succeeds.  An import then looks up each of the names in that directory.
exportImportArgs ==
  {[fn |-> "export, import", names |-> ns, at |-> ts] :
     ns \in (SUBSET (1..Len(DbNames))) \ {{}}, ts \in [1..Len(DbNames) -> DumpTimes]}

PureArgs ==
  {a \in findBackupFileArgs : a.exists \/ a.files = {}} \cup backupFileArgs
    \cup sqlCommandsArgs \cup logFileArgs \cup exportImportArgs

\* A function of the scripts is applied to arguments drawn from PureArgs; no
\* script runs.
InitPure ==
  /\ callArgs \in PureArgs
  /\ callValue = NoCall
  /\ mode = "import"
  /\ databases = <<>>
  /\ credFile = "ok"
  /\ rootPassword = "secret"
  /\ backupDir = "dir"
  /\ dirFiles = {}
  /\ logDirExists = TRUE
  /\ pc = "pure"
  /\ i = 0
  /\ stats = NoStats
  /\ exitCode = -1
  /\ exitAt = "running"
  /\ logStream = <<>>
  /\ logFile = [written |-> FALSE, content |-> <<>>]
  /\ procs = <<>>
  /\ backupFile = NoFile
  /\ calls = <<>>
  /\ written = {}
  /\ spawned = [dump |-> 0, admin |-> 0, restore |-> 0]
  /\ outcome = <<>>

\* The variables of a run of a script.
runState ==
  << inputs, logDirExists, pc, i, stats, exitCode, exitAt, logStream, logFile, procs,
     backupFile, calls, written, spawned, outcome >>

\* findBackupFile is called and returns.
call_findBackupFile ==
  /\ callValue = NoCall
  /\ callArgs.fn = "findBackupFile"
  /\ callValue' = [fn |-> "findBackupFile",
                   file |-> findBackupFileAt(callArgs.dbName, callArgs.exists,
                                             callArgs.files)]
  /\ UNCHANGED <<callArgs, runState>>

\* dumpDatabase names the artifacts of two dumps.
call_backupFileOf ==
  /\ callValue = NoCall
  /\ callArgs.fn = "dumpDatabase"
  /\ callValue' = [fn |-> "dumpDatabase",
                   first |-> backupFileOf(callArgs.dbName, callArgs.first),
                   second |-> backupFileOf(callArgs.dbName, callArgs.second)]
  /\ UNCHANGED <<callArgs, runState>>

\* The provisioning script of a record is run once, and once more on the
\* server the first run left.
call_sqlCommands ==
  /\ callValue = NoCall
  /\ callArgs.fn = "createDatabaseAndUser"
  /\ LET script == sqlCommands(callArgs.database_name, callArgs.account)
         once == mysql(callArgs.server, script)
     IN callValue' = [fn |-> "createDatabaseAndUser",
                      once |-> once,
                      twice |-> mysql(once.server, script)]
  /\ UNCHANGED <<callArgs, runState>>

\* new Logger(logDir) names the log files of two runs.
call_logFileOf ==
  /\ callValue = NoCall
  /\ callArgs.fn = "Logger"
  /\ callValue' = [fn |-> "Logger",
                   first |-> logFileOf(callArgs.script, callArgs.first),
                   second |-> logFileOf(callArgs.script, callArgs.second)]
  /\ UNCHANGED <<callArgs, runState>>

\* Every dump of an export run writes its artifact into the directory, and the
\* import looks up the backup of each record there.
call_exportImport ==
  /\ callValue = NoCall
  /\ callArgs.fn = "export, import"
  /\ LET dir == {backupFileOf(DbNames[n], callArgs.at[n]) : n \in callArgs.names}
     IN callValue' = [fn |-> "export, import",
                      dir |-> dir,
                      found |-> [n \in callArgs.names |->
                                   findBackupFileAt(DbNames[n], TRUE, dir)]]
  /\ UNCHANGED <<callArgs, runState>>

NextPure ==
  \/ call_findBackupFile
  \/ call_backupFileOf
  \/ call_sqlCommands
  \/ call_logFileOf
  \/ call_exportImport

SpecPure == InitPure /\ [][NextPure]_vars

\* =================================================================== claims
\* Record k has been counted in one of successful, failed and skipped.
counted(k) == outcome[k] # "none"

\* main() has left the loop over the credential sequence through its end.
passComplete ==
  \/ pc = "loop" /\ i = N
  \/ pc = "returned"
  \/ exitAt \in {"final flush", "summary", "end"}

\* The iteration of record i has ended: main() is at the head of the loop again
\* or beyond the loop.
iterationDone == i >= 1 /\ (pc = "loop" \/ passComplete)

\* The lookup of record k's artifact returns none.
lookupNone(k) == backupDir = "dir" /\ findBackupFile(DbNames[k], dirFiles) = NoFile

Loopback == {"localhost", "127.0.0.1"}

\* C1: import.  Once the loop has started, the process does not end before
\* every record of the sequence has been counted: no error of one record
\* (provisioning, restore, timeout, stdin, listing the backup directory,
\* reading the artifact) ends the run.
C1_ImportHandlesEveryRecord ==
  (mode = "import" /\ pc = "exited" /\ i >= 1) => \A k \in 1..N : counted(k)

\* C2: export.  Once the loop has started, the process does not end before
\* every record of the sequence has been counted: no error of one record (exit
\* code, spawn failure, timeout, writing the artifact) ends the run.
C2_ExportHandlesEveryRecord ==
  (mode = "export" /\ pc = "exited" /\ i >= 1) => \A k \in 1..N : counted(k)

\* C3: when a run has passed over its whole sequence, total is the length of
\* the sequence, every record is counted once, and successful + failed +
\* skipped = total in import, successful + failed = total in export.
C3_CountersAddUp ==
  passComplete =>
    /\ stats.total = N
    /\ \A k \in 1..N : counted(k)
    /\ \A name \in {"successful", "failed", "skipped"} :
         stats[name] = Cardinality({k \in 1..N : outcome[k] = name})
    /\ mode = "import" => stats.successful + stats.failed + stats.skipped = stats.total
    /\ mode = "export" => stats.successful + stats.failed = stats.total

C3_Witness ==
  /\ mode = "import" /\ passComplete /\ N = 2
  /\ stats.skipped = 1 /\ stats.successful = 1 /\ stats.total = 2

\* C4: the process ends with status 0 exactly when the run completed its pass
\* with failed = 0 and, in import, skipped = 0; in every other case the status
\* is not 0.
C4_ExitZeroIffCleanPass ==
  pc = "exited" =>
    (exitCode = 0 <=> /\ passComplete
                      /\ stats.failed = 0
                      /\ mode = "import" => stats.skipped = 0)

\* C5: import.  A record whose lookup returns none is counted skipped, never
\* failed or successful, and no provisioning or restore child is spawned for
\* it; a provisioning child exists only after the lookup of its record found a
\* file.
C5_SkipWithoutSpawn ==
  mode = "import" =>
    LET none == {k \in 1..i : lookupNone(k)}
    IN /\ \A k \in none :
            /\ outcome[k] \in {"none", "skipped"}
            /\ (k < i \/ iterationDone) => outcome[k] = "skipped"
            /\ \A c \in 1..Len(procs) : procs[c].db # k
            /\ k = i => calls = <<>>
       /\ spawned.admin <= i - Cardinality(none)
       /\ spawned.restore <= 2 * spawned.admin
       /\ calls # <<>> => backupFile # NoFile

C5_Witness ==
  /\ mode = "import" /\ i = 2 /\ pc = "await"
  /\ lookupNone(1) /\ outcome[1] = "skipped" /\ stats.skipped = 1
  /\ spawned.admin = 1 /\ procs[1].db = 2

\* C6: import.  A restore attempt is started only after the provisioning of
\* the same record resolved true on exit code 0; after a failed provisioning no
\* restore is started and the record is counted failed, not skipped.
C6_RestoreOnlyAfterSetup ==
  mode = "import" =>
    /\ \A a \in attempts :
         /\ a > 1
         /\ calls[1].kind = "admin"
         /\ calls[1].result = "true"
         /\ calls[1].by = "exit 0"
    /\ \A c \in 1..Len(procs) :
         (procs[c].kind = "restore" /\ procs[c].db = i) => attempts # {}
    /\ (calls # <<>> /\ calls[1].result = "false") =>
         /\ Len(calls) = 1
         /\ outcome[i] \in {"none", "failed"}
         /\ iterationDone => outcome[i] = "failed"

C6_Witness ==
  /\ mode = "import" /\ pc = "loop" /\ i >= 1
  /\ Len(calls) = 1 /\ calls[1].kind = "admin" /\ calls[1].by = "exit non-0"
  /\ outcome[i] = "failed" /\ spawned.restore = 0

\* C7: import.  A record gets one restore attempt or two.  There is a second
\* exactly when the first, against the record's host, failed and that host is
\* "localhost" or "127.0.0.1"; it goes to the other spelling.  Any other host
\* is never retried.
C7_FallbackOnlyBetweenLoopbacks ==
  (mode = "import" /\ attempts # {}) =>
    /\ Cardinality(attempts) \in {1, 2}
    /\ calls[2].kind = "restore" /\ calls[2].host = databases[i]
    /\ Cardinality(attempts) = 2 =>
         /\ calls[2].result = "false"
         /\ calls[3].kind = "restore"
         /\ {calls[2].host, calls[3].host} = Loopback
    /\ (iterationDone /\ calls[2].result = "false" /\ databases[i] \in Loopback) =>
         Cardinality(attempts) = 2
    /\ databases[i] \notin Loopback => Cardinality(attempts) = 1

C7_Witness ==
  /\ mode = "import" /\ iterationDone
  /\ databases[i] = "127.0.0.1"
  /\ Cardinality(attempts) = 2
  /\ calls[3].host = "localhost" /\ calls[3].result = "false"

\* C8: import.  A record whose restore was attempted is counted successful
\* exactly when its first or its fallback attempt returned on a clean exit
\* (close with code 0), and failed otherwise; a success of the first attempt is
\* counted after one attempt, a success of the fallback after exactly two.
C8_SuccessIffAnAttemptExitedCleanly ==
  (mode = "import" /\ iterationDone /\ attempts # {}) =>
    /\ outcome[i] \in {"successful", "failed"}
    /\ outcome[i] = "successful" <=> \E a \in attempts : calls[a].by = "exit 0"
    /\ \A a \in attempts : calls[a].result = "true" <=> calls[a].by = "exit 0"
    /\ calls[2].by = "exit 0" => Cardinality(attempts) = 1
    /\ outcome[i] = "failed" =>
         Cardinality(attempts) = IF databases[i] \in Loopback THEN 2 ELSE 1

C8_Witness ==
  /\ mode = "import" /\ iterationDone
  /\ databases[i] = "localhost"
  /\ Cardinality(attempts) = 2
  /\ calls[2].result = "false" /\ calls[3].by = "exit 0"
  /\ outcome[i] = "successful"

\* C9: export.  When the timer of a dump fires while the child still runs, the
\* child is killed, the dump call returns false, the record is counted failed
\* and never successful, and main() goes on with the next record.
C9_HungDumpIsKilledAndFailed ==
  mode = "export" =>
    /\ \A c \in 1..Len(procs) :
         (procs[c].timer = "fired" /\ alive(procs[c])) =>
           /\ procs[c].killed
           /\ procs[c].result = "false"
           /\ outcome[procs[c].db] \in {"none", "failed"}
           /\ outcome[procs[c].db] = "none" => (pc = "afterDump" /\ i = procs[c].db)
    /\ (calls # <<>> /\ calls[1].by = "timer") =>
         /\ pc # "await"
         /\ calls[1].result = "false"
         /\ outcome[i] \in {"none", "failed"}
         /\ iterationDone => outcome[i] = "failed"

C9_Witness ==
  /\ mode = "export" /\ i = 2 /\ pc = "await"
  /\ Len(procs) = 2
  /\ procs[1].db = 1 /\ procs[1].timer = "fired" /\ procs[1].killed /\ alive(procs[1])
  /\ outcome[1] = "failed" /\ stats.failed = 1

\* C10: export.  The dump of a record is started exactly once, whatever its
\* result, and the record is counted successful or failed: nothing is retried
\* and nothing is skipped.
C10_OneDumpPerRecord ==
  mode = "export" =>
    /\ spawned.dump = Cardinality({k \in 1..N : k < i \/ (k = i /\ calls # <<>>)})
    /\ spawned.admin = 0 /\ spawned.restore = 0
    /\ Len(calls) <= 1
    /\ \A k \in 1..Len(calls) : calls[k].kind = "dump"
    /\ stats.skipped = 0
    /\ \A k \in 1..N : outcome[k] \in {"none", "successful", "failed"}
    /\ \A k \in 1..N : (k < i \/ (k = i /\ iterationDone)) => counted(k)

C10_Witness ==
  /\ mode = "export" /\ passComplete /\ N = 2
  /\ outcome[1] = "failed" /\ outcome[2] = "successful"
  /\ spawned.dump = 2

\* C11: records are processed in the order of the sequence, and every log
\* entry that names record k is appended before record k + 1 starts: in the
\* log, the records named never go down.
C11_LogFollowsTheSequence ==
  /\ \A a, b \in 1..Len(logStream) : a < b => logStream[a].db <= logStream[b].db
  /\ \A k \in 1..N : counted(k) => k <= i

\* C12: at every moment at most one child process (dump, provisioning or
\* restore) is alive.
C12_AtMostOneChildAlive ==
  Cardinality({c \in 1..Len(procs) : alive(procs[c])}) <= 1

\* The run has a configuration error: the credential source is missing or
\* unreadable, or (import) the administrator password is empty.
configError == credFile # "ok" \/ (mode = "import" /\ rootPassword = "")

\* C13: a run with a configuration error never reaches the loop: no child is
\* spawned, no counter is incremented, and when the process has ended its
\* status is not 0.
C13_ConfigErrorEndsBeforeProcessing ==
  configError =>
    /\ i = 0
    /\ pc \in {"start", "readFile", "prompt", "exited"}
    /\ spawned = [dump |-> 0, admin |-> 0, restore |-> 0]
    /\ procs = <<>>
    /\ stats = NoStats
    /\ pc = "exited" => exitCode # 0

C13_Witness ==
  /\ mode = "import" /\ credFile = "ok" /\ rootPassword = "" /\ N = 2
  /\ pc = "exited" /\ exitAt = "config" /\ exitCode = 1

\* s comes before t in the order of UTF-16 code units: s is a proper prefix of
\* t, or they differ first at a position where s has the smaller unit.
lexLess(s, t) ==
  \/ Len(s) < Len(t) /\ \A j \in 1..Len(s) : s[j] = t[j]
  \/ \E j \in 1..Len(s) :
       /\ j <= Len(t)
       /\ \A h \in 1..(j - 1) : s[h] = t[h]
       /\ CharCode(s[j]) < CharCode(t[j])

\* Entry f of a directory is named "<db>_....sql".
isBackupOf(f, db) ==
  /\ Len(f) >= Len(db) + 1
  /\ \A j \in 1..Len(db) : f[j] = db[j]
  /\ f[Len(db) + 1] = "_"
  /\ Len(f) >= 4
  /\ <<f[Len(f) - 3], f[Len(f) - 2], f[Len(f) - 1], f[Len(f)]>> = <<".", "s", "q", "l">>

\* C14: findBackupFile(db, dir) returns none when dir does not exist or holds
\* no entry "<db>_....sql"; otherwise it returns one entry of dir, the
\* greatest such entry in lexicographic order.
C14_LocatorPicksTheGreatestMatch ==
  callValue.fn = "findBackupFile" =>
    LET matching == {f \in callArgs.files : isBackupOf(f, callArgs.dbName)}
    IN /\ (~callArgs.exists \/ matching = {}) => callValue.file = NoFile
       /\ (callArgs.exists /\ matching # {}) =>
            /\ callValue.file \in matching
            /\ \A g \in matching : g = callValue.file \/ lexLess(g, callValue.file)

C14_Witness ==
  /\ callValue.fn = "findBackupFile"
  /\ callArgs.dbName = <<"a">>
  /\ callArgs.files = { BackupName(<<"a">>, "1", SqlExt), BackupName(<<"a">>, "2", SqlExt),
                        BackupName(<<"b">>, "2", SqlExt) }
  /\ callValue.file = BackupName(<<"a">>, "2", SqlExt)

\* The log holds an entry with message msg that names record k.
logged(msg, k) == \E e \in 1..Len(logStream) : logStream[e] = Entry(msg, k)

\* C15: export.  Every record counted successful has its artifact written,
\* and it is written before the counter is incremented; a dump whose child
\* exits with a code other than 0 or fails to spawn writes no artifact.
C15_SuccessfulDumpHasItsArtifact ==
  mode = "export" =>
    /\ \A k \in 1..N : outcome[k] = "successful" => k \in written
    /\ (pc = "afterDump" /\ calls[1].result = "true") => i \in written
    /\ \A k \in 1..N :
         (logged("Backup failed", k) \/ logged("Error backing up", k)) => k \notin written

C15_Witness ==
  /\ mode = "export" /\ passComplete /\ N = 2
  /\ outcome[1] = "successful" /\ written = {1}
  /\ logged("Backup failed", 2) /\ outcome[2] = "failed"

\* C16: the name of an artifact carries the start of its dump as
\* YYYY-MM-DD_HHMMSS: two dumps of one database started at different seconds
\* get different names, and the dump started first gets the name that comes
\* first in lexicographic order.
C16_ArtifactNamesFollowTheClock ==
  callValue.fn = "dumpDatabase" =>
    /\ Len(callValue.first) = Len(callArgs.dbName) + 1 + 17 + 4
    /\ callArgs.first # callArgs.second => callValue.first # callValue.second
    /\ seconds(callArgs.first) < seconds(callArgs.second) =>
         lexLess(callValue.first, callValue.second)

\* The messages the events of a dump child log.
DumpEvents == {"Backup successful", "Backup failed", "Error backing up", "Backup timeout"}

\* The first event of the dump of record k, by the message it logged: "none"
\* while there was no event.
firstEvent(k) ==
  LET events == {e \in 1..Len(logStream) :
                   logStream[e].db = k /\ logStream[e].msg \in DumpEvents}
  IN IF events = {} THEN "none"
     ELSE logStream[CHOOSE e \in events : \A f \in events : e <= f].msg

\* C17: export.  After a pass over the whole sequence, successful is the
\* number of records whose dump child exited with code 0 before any other event
\* of that dump, failed is the number of all other records, total is the length
\* of the sequence, and the exit status is not 0 exactly when failed is not 0.
C17_ExportStatsAreAFold ==
  (mode = "export" /\ passComplete) =>
    LET ok == {k \in 1..N : firstEvent(k) = "Backup successful"}
    IN /\ stats.total = N
       /\ stats.successful = Cardinality(ok)
       /\ stats.failed = N - Cardinality(ok)
       /\ \A k \in 1..N : firstEvent(k) # "none"
       /\ pc = "exited" => (exitCode # 0 <=> stats.failed > 0)

C17_Witness ==
  /\ mode = "export" /\ N = 2 /\ pc = "exited" /\ exitAt = "summary"
  /\ firstEvent(1) = "Backup failed" /\ firstEvent(2) = "Backup successful"
  /\ stats = [total |-> 2, successful |-> 1, failed |-> 1, skipped |-> 0]
  /\ exitCode = 1

\* What the fold assigns to the record of the iteration that has just ended,
\* from its lookup and the values its calls returned: skipped without a
\* matching artifact, failed when the provisioning failed or every restore
\* attempt failed, successful otherwise.
recordFold ==
  IF lookupNone(i) THEN "skipped"
  ELSE IF calls[1].result # "true" THEN "failed"
  ELSE IF \A a \in attempts : calls[a].result = "false" THEN "failed"
  ELSE "successful"

\* C18 (state part): import.  The record of an iteration that ended is counted
\* as the fold says; after a pass over the whole sequence every counter is the
\* number of records counted under it, total is the length of the sequence, and
\* the exit status is not 0 when a record failed or was skipped.
C18_Counted ==
  mode = "import" =>
    /\ iterationDone => outcome[i] = recordFold
    /\ passComplete =>
         /\ stats.total = N
         /\ \A name \in {"successful", "failed", "skipped"} :
              stats[name] = Cardinality({k \in 1..N : outcome[k] = name})
         /\ (pc = "exited" /\ stats.failed + stats.skipped > 0) => exitCode # 0

\* C18 (step part): what a record was counted as never changes.
C18_Stable ==
  \A k \in 1..N : counted(k) => outcome'[k] = outcome[k]

\* C18: import.  The final statistics are the fold over the credential
\* sequence: skipped counts the records without a matching artifact, failed
\* those with an artifact whose provisioning failed or whose restore failed on
\* every attempted host, successful the remaining records.
C18_ImportStatsAreAFold == [](C18_Counted) /\ [][C18_Stable]_vars

C18_Witness ==
  /\ mode = "import" /\ N = 2 /\ pc = "exited" /\ exitAt = "summary" /\ exitCode = 1
  /\ lookupNone(1) /\ outcome[1] = "skipped"
  /\ databases[2] = "localhost" /\ Cardinality(attempts) = 2
  /\ \A a \in attempts : calls[a].result = "false"
  /\ stats = [total |-> 2, successful |-> 0, failed |-> 1, skipped |-> 1]

\* C19: the provisioning script, run for a record on any server, creates the
\* database, the account and the grant; run a second time for the same record
\* it is no error and leaves the databases, accounts and grants of the first
\* run.
C19_ProvisioningIsIdempotent ==
  callValue.fn = "createDatabaseAndUser" =>
    /\ ~callValue.once.error
    /\ callArgs.database_name \in callValue.once.server.databases
    /\ callArgs.account \in callValue.once.server.users
    /\ <<callArgs.account, callArgs.database_name>> \in callValue.once.server.grants
    /\ ~callValue.twice.error
    /\ callValue.twice.server = callValue.once.server

C19_Witness ==
  /\ callValue.fn = "createDatabaseAndUser"
  /\ callArgs.server = [databases |-> {"b"}, users |-> {}, grants |-> {}]
  /\ callArgs.database_name = "a"
  /\ callArgs.account = <<"u", "localhost">>
  /\ callValue.twice.server =
       [databases |-> {"a", "b"}, users |-> {<<"u", "localhost">>},
        grants |-> {<< <<"u", "localhost">>, "a" >>}]
  /\ ~callValue.twice.error

\* The process was ended by an exception of a log call: the periodic flush of
\* the entry that made the buffer a multiple of FlushEvery threw.
logThrew ==
  /\ exitAt \in {"rejected", "uncaught"}
  /\ ~logDirExists
  /\ Len(logStream) > 0 /\ Len(logStream) % FlushEvery = 0

\* C20: a run that passed over its whole sequence ends with its log written
\* to the log file, whether or not the log directory existed when the run
\* started, and no run ends on its log with a record not yet counted.
C20_RunLogIsWritten ==
  /\ (pc = "exited" /\ passComplete) => logFile.written
  /\ logThrew => \A k \in 1..N : counted(k)

\* C21: the name of the log file of a run carries the start of the run as
\* YYYY-MM-DD_HHMMSS: two runs of one script started at different seconds
\* write to different log files.
C21_LogNamesFollowTheClock ==
  callValue.fn = "Logger" =>
    /\ Len(callValue.first) = 2 + 17 + 4
    /\ callArgs.first # callArgs.second => callValue.first # callValue.second

\* C22: import.  A restore child still running when its timer fires is
\* killed, and the attempt returns false; the fallback rule then applies as
\* after any failed attempt (a first attempt on a loopback host is followed by
\* a second, any other host by none), and the record is counted failed exactly
\* when no attempt succeeded.
C22_RestoreTimeoutFailsTheAttemptOnly ==
  mode = "import" =>
    /\ \A c \in 1..Len(procs) :
         (procs[c].kind = "restore" /\ procs[c].timer = "fired" /\ alive(procs[c])) =>
           procs[c].killed
    /\ \A a \in attempts : calls[a].by = "timer" =>
         /\ calls[a].result = "false"
         /\ (a = 2 /\ pc \notin {"afterFirst", "exited"}) =>
              Cardinality(attempts) = IF databases[i] \in Loopback THEN 2 ELSE 1
         /\ iterationDone =>
              /\ outcome[i] \in {"successful", "failed"}
              /\ outcome[i] = "failed" <=> \A b \in attempts : calls[b].result = "false"

C22_Witness ==
  /\ mode = "import" /\ iterationDone
  /\ databases[i] = "localhost"
  /\ Cardinality(attempts) = 2
  /\ calls[2].by = "timer" /\ calls[3].by = "exit 0" /\ calls[3].host = "127.0.0.1"
  /\ outcome[i] = "successful"
  /\ \E c \in 1..Len(procs) : procs[c].kind = "restore" /\ procs[c].killed

\* C23 (state part): the value a dump or a restore attempt returned is the
\* one of the event that settled it: true for a close with code 0, false for
\* any other close, a spawn error, a stdin error or the timer; a record of the
\* export is counted by the first event of its dump; a child alive when its
\* timer fired has been sent a kill.
C23_FirstEventDecides ==
  /\ \A a \in 1..Len(calls) :
       /\ calls[a].result = "pending" <=> calls[a].by = "none"
       /\ calls[a].by = "exit 0" => calls[a].result = "true"
       /\ calls[a].by \in {"exit non-0", "error", "stdin", "timer"} =>
            calls[a].result = "false"
  /\ pc = "await" => calls[Len(calls)].result = "pending"
  /\ mode = "export" =>
       \A k \in 1..N : counted(k) =>
         (outcome[k] = "successful" <=> firstEvent(k) = "Backup successful")
  /\ \A c \in 1..Len(procs) :
       (procs[c].timer = "fired" /\ alive(procs[c])) => procs[c].killed

\* C23 (step part): no step changes a value that was returned in the current
\* iteration, nor what a record was counted as.
C23_LaterEventsChangeNothing ==
  /\ i' = i => \A a \in 1..Len(calls) :
       calls[a].result # "pending" => (Len(calls') >= a /\ calls'[a] = calls[a])
  /\ \A k \in 1..N : counted(k) => outcome'[k] = outcome[k]
  /\ pc \in {"await", "returned"} => stats' = stats

\* C23: for each dump and each restore attempt the value returned to main()
\* is fixed by the first of the child's close or spawn error, a stdin error
\* and the timer; later events change neither that value nor what the record
\* is counted as; on a timeout the child is sent a kill.
C23_FirstEventWins == [](C23_FirstEventDecides) /\ [][C23_LaterEventsChangeNothing]_vars

C23_Witness ==
  /\ mode = "export" /\ i = 2 /\ pc = "await"
  /\ outcome[1] = "failed" /\ firstEvent(1) = "Backup timeout"
  /\ logged("Backup successful", 1)
  /\ stats.failed = 1 /\ stats.successful = 0

\* C24: a restore attempt whose input channel raised an error returned false
\* and main() went on at once; nothing more is tried with that child: the only
\* attempt after it is the one against the other loopback spelling, with a
\* child of its own, and only when the record's host is a loopback spelling.
C24_StdinErrorEndsTheAttempt ==
  mode = "import" =>
    /\ spawned.restore >= Cardinality(attempts)
    /\ \A a \in attempts : calls[a].by = "stdin" =>
         /\ calls[a].result = "false"
         /\ ~(pc = "await" /\ a = Len(calls))
         /\ \A b \in attempts : b > a =>
              /\ b = a + 1 /\ a = 2
              /\ databases[i] \in Loopback
              /\ calls[a].host = databases[i]
              /\ calls[b].host \in Loopback \ {calls[a].host}
         /\ (a = 2 /\ pc \notin {"afterFirst", "exited"}) =>
              Cardinality(attempts) = IF databases[i] \in Loopback THEN 2 ELSE 1
         /\ (a = Len(calls) /\ iterationDone) => outcome[i] = "failed"

C24_Witness ==
  /\ mode = "import" /\ iterationDone
  /\ databases[i] = "127.0.0.1"
  /\ Cardinality(attempts) = 2
  /\ calls[2].by = "stdin" /\ calls[3].by = "exit 0" /\ calls[3].host = "localhost"
  /\ outcome[i] = "successful"
  /\ spawned.restore >= 2

\* C25 (state part): the three counters add up to the number of records
\* handled so far, which is at most total once the statistics are built; the
\* records handled are the first ones of the sequence, all of those before the
\* current one.
C25_CountersFollowTheRecords ==
  LET handled == {k \in 1..N : counted(k)}
  IN /\ stats.successful + stats.failed + stats.skipped = Cardinality(handled)
     /\ stats.total \in {0, N}
     /\ handled # {} => (stats.total = N /\ Cardinality(handled) <= stats.total)
     /\ handled \in {1..i, 1..(i - 1)}
     /\ pc = "loop" => handled = 1..i
     /\ mode = "export" => stats.skipped = 0

\* C25 (step part): a step that changes the statistics either builds them,
\* with total the length of the sequence and three zeros, or adds exactly 1 to
\* exactly one counter for a record not counted before and leaves the other
\* counters and total as they are.
C25_OneIncrementPerRecord ==
  stats' # stats =>
    \/ /\ stats = NoStats
       /\ \A k \in 1..N : ~counted(k)
       /\ stats' = [NoStats EXCEPT !.total = N]
       /\ outcome' = outcome
    \/ \E name \in {"successful", "failed", "skipped"} :
         /\ stats' = [stats EXCEPT ![name] = @ + 1]
         /\ ~counted(i')
         /\ outcome' = [outcome EXCEPT ![i'] = name]

\* C25: the statistics are changed exactly once for each record handled: one
\* of successful, failed and skipped (never skipped in export) grows by 1,
\* the others and total stay; after k records the three add up to
\* k <= total, and no counter ever decreases.
C25_StatsChangeOncePerRecord ==
  [](C25_CountersFollowTheRecords) /\ [][C25_OneIncrementPerRecord]_vars

C25_Witness ==
  /\ mode = "import" /\ N = 2 /\ i = 2 /\ pc = "await"
  /\ outcome[1] = "failed" /\ ~counted(2)
  /\ stats = [total |-> 2, successful |-> 0, failed |-> 1, skipped |-> 0]

\* C26: after an export of records with distinct names into an empty
\* directory, all of whose dumps succeeded, the import's lookup of each
\* record returns the file that record's dump wrote.
C26_ImportSelectsItsOwnBackup ==
  callValue.fn = "export, import" =>
    \A n \in callArgs.names :
      callValue.found[n] = backupFileOf(DbNames[n], callArgs.at[n])

\* C27: export.  The log and the statistics agree for every counted record:
\* a "Backup timeout" entry is logged only for a record counted failed, and
\* a "Backup successful" entry only for a record counted successful, whose
\* artifact is written.
C27_ExportLogAgreesWithStats ==
  mode = "export" =>
    \A k \in 1..N : counted(k) =>
      /\ logged("Backup timeout", k) => outcome[k] = "failed"
      /\ logged("Backup successful", k) => (outcome[k] = "successful" /\ k \in written)

\* C28: import.  An "Import successful" entry is logged only for a restore
\* attempt that returned true to importDatabase: the record of the current
\* iteration has such an entry only if one of its attempts returned true, and
\* a counted record with such an entry is counted successful.
C28_ImportSuccessIsLoggedForSuccess ==
  mode = "import" =>
    \A k \in 1..N : logged("Import successful", k) =>
      /\ counted(k) => outcome[k] = "successful"
      /\ (k = i /\ ~counted(k)) => \E a \in attempts : calls[a].result \in {"true", "pending"}

\* C29: when the process has ended after a complete pass and the log file
\* was written, the file holds the whole buffer: nothing was logged after the
\* final flush.
C29_LogFileHoldsTheWholeLog ==
  (pc = "exited" /\ passComplete /\ logFile.written) => logFile.content = logStream

====
